---- MODULE Spec2Model ----
(***************************************************************************)
(* A model of testme (src/src/app.py): the script that lists the files of  *)
(* the last commit, keeps those under a "test"/"tests" directory and runs  *)
(* the repository's .testme/test_runner on each of them.                   *)
(*                                                                         *)
(* Strings are sequences of one-character strings, so that str.split,      *)
(* str.replace, str.strip and pathlib's parsing are computed character by  *)
(* character, as the interpreter computes them.                            *)
(***************************************************************************)
EXTENDS Integers, Sequences, FiniteSets, TLC

VARIABLES
    pc,               \* position of the interpreter in the script
    cwd,              \* environment: the current working directory
    toplevel,         \* environment: the work tree root git knows ("" outside a repository)
    fs,               \* environment: what .testme and .testme/test_runner are on disk
    REPO_PATH_STRING, \* module global, line 54
    check_log,        \* the validation checks evaluated so far, with their results
    calls,            \* every command handed to run_cli so far
    listing,          \* the lines git diff-tree printed
    files,            \* get_files()'s return value
    j,                \* how many entries of files the filter has been applied to
    verdicts,         \* filter_test_files's result for files[1..j]
    components,       \* filter_test_files's local of its latest call
    test_paths,       \* run's local: the candidates
    tests,            \* run's local: (test_path, passed) pairs
    something_failed, \* run's local
    returncodes,      \* the exit code of each runner invocation that returned
    output,           \* the stdout/stderr of the latest runner invocation
    printed,          \* what the script has written to the console
    exit_code         \* the process's exit status, "none" while it runs

vars == <<pc, cwd, toplevel, fs, REPO_PATH_STRING, check_log, calls, listing,
          files, j, verdicts, components, test_paths, tests, something_failed,
          returncodes, output, printed, exit_code>>

----------------------------------------------------------------------------
(* Bounds and the input alphabet *)

\* the largest number of lines git diff-tree prints after the commit line
MaxFiles == 2

SEP == "/"
NL == "\n"
Whitespace == {" ", "\n", "\t", "\r"}

Test == <<"t", "e", "s", "t">>
Tests == <<"t", "e", "s", "t", "s">>

\* the commit line of git diff-tree's output
Sha == <<"5", "8">>

\* work tree roots: "/w" and "/test"
Roots == { <<"/", "w">>, <<"/", "t", "e", "s", "t">> }

\* where below the root the script is started: "" (the root) or "/tests"
Subdirs == { <<>>, <<"/", "t", "e", "s", "t", "s">> }

\* the lines git diff-tree may print after the commit line:
\* "", "tests/a", "test", "testing/a", "src/attest"
RelPaths == { <<>>,
              <<"t", "e", "s", "t", "s", "/", "a">>,
              <<"t", "e", "s", "t">>,
              <<"t", "e", "s", "t", "i", "n", "g", "/", "a">>,
              <<"s", "r", "c", "/", "a", "t", "t", "e", "s", "t">> }

\* exit codes of the test runner
RetCodes == {0, 1, 2}

\* what the test runner writes to a stream: nothing, or "F"
Streams == { <<>>, <<"F">> }

----------------------------------------------------------------------------
(* str and pathlib *)

RECURSIVE SplitFrom(_, _, _, _)
SplitFrom(s, sep, i, cur) ==
    IF i > Len(s) THEN <<cur>>
    ELSE IF s[i] = sep THEN <<cur>> \o SplitFrom(s, sep, i + 1, <<>>)
    ELSE SplitFrom(s, sep, i + 1, Append(cur, s[i]))

\* str.split(sep) for a one-character sep
Split(s, sep) == SplitFrom(s, sep, 1, <<>>)

RECURSIVE Join(_, _)
\* sep.join(items)
Join(items, sep) ==
    IF Len(items) = 0 THEN <<>>
    ELSE IF Len(items) = 1 THEN items[1]
    ELSE items[1] \o <<sep>> \o Join(Tail(items), sep)

RECURSIVE LStrip(_)
LStrip(s) == IF Len(s) > 0 /\ s[1] \in Whitespace THEN LStrip(Tail(s)) ELSE s

RECURSIVE RStrip(_)
RStrip(s) ==
    IF Len(s) > 0 /\ s[Len(s)] \in Whitespace THEN RStrip(SubSeq(s, 1, Len(s) - 1)) ELSE s

\* str.strip()
Strip(s) == RStrip(LStrip(s))

MatchAt(s, old, i) ==
    /\ i + Len(old) - 1 <= Len(s)
    /\ SubSeq(s, i, i + Len(old) - 1) = old

RECURSIVE ReplaceFrom(_, _, _)
ReplaceFrom(s, old, i) ==
    IF i > Len(s) THEN <<>>
    ELSE IF MatchAt(s, old, i) THEN ReplaceFrom(s, old, i + Len(old))
    ELSE <<s[i]>> \o ReplaceFrom(s, old, i + 1)

\* s.replace(old, ""): every non-overlapping occurrence of old, left to right
Replace(s, old) == IF Len(old) = 0 THEN s ELSE ReplaceFrom(s, old, 1)

RECURSIVE LeadingSeps(_)
LeadingSeps(s) == IF Len(s) > 0 /\ s[1] = SEP THEN 1 + LeadingSeps(Tail(s)) ELSE 0

IsRoot(c) == c = <<SEP>> \/ c = <<SEP, SEP>>

\* Path(s).parts on POSIX: the root if any, then the components that are
\* neither empty nor "."
Parts(s) ==
    LET n == LeadingSeps(s)
        comps == SelectSeq(Split(s, SEP), LAMBDA c : c # <<>> /\ c # <<".">>)
    IN  IF n = 0 THEN comps
        ELSE IF n = 2 THEN << <<SEP, SEP>> >> \o comps
        ELSE << <<SEP>> >> \o comps

\* str(path) of a path given by its parts
PathStr(parts) ==
    IF Len(parts) = 0 THEN <<".">>
    ELSE IF IsRoot(parts[1]) THEN parts[1] \o Join(Tail(parts), SEP)
    ELSE Join(parts, SEP)

\* path.resolve() in a directory tree without symbolic links or "..":
\* a relative path is taken from the current working directory
Resolve(parts, dir) ==
    IF Len(parts) > 0 /\ IsRoot(parts[1]) THEN parts ELSE Parts(dir) \o parts

----------------------------------------------------------------------------
(* The environment *)

\* what .testme and .testme/test_runner can be on disk
FsStates ==
    { f \in [config : {"missing", "file", "dir"},
             runner : {"missing", "dir", "file"},
             executable : BOOLEAN] :
        /\ f.config # "dir" => f.runner = "missing"
        /\ f.runner = "missing" => ~f.executable }

\* the outputs of git diff-tree: nothing at all, or the commit line followed
\* by at most MaxFiles lines
Listings ==
    { <<>> } \cup
    { <<Sha>> \o fl : fl \in UNION { [1..n -> RelPaths] : n \in 0..MaxFiles } }

\* a child process as the operating system presents it: whether it could be
\* launched, and what it wrote and returned if it was
Proc(launched, out, err, rc) ==
    [launched |-> launched, stdout |-> out, stderr |-> err, returncode |-> rc]

----------------------------------------------------------------------------
(* The script's functions *)

Raised == [raised |-> TRUE, stdout |-> <<>>, stderr |-> <<>>, returncode |-> 0]

\* subprocess.run(args, ...): raises when the child cannot be launched, and
\* (TypeError) when args is not a string or a sequence
subprocess_run(args_is_list, proc) ==
    IF args_is_list /\ proc.launched
    THEN [raised |-> FALSE, stdout |-> proc.stdout, stderr |-> proc.stderr,
          returncode |-> proc.returncode]
    ELSE Raised

\* run_cli(command): the try passes command.split(), a list; the except
\* branch passes command.split, the bound method itself
run_cli(proc) ==
    LET first == subprocess_run(TRUE, proc)
    IN  IF ~first.raised THEN first ELSE subprocess_run(FALSE, proc)

get_toplevel_repo(result) == Strip(result.stdout)

\* variant of get_files that keeps the commit line
get_files_nopop(stdout) == Split(stdout, NL)

\* output_string.split("\n") then files.pop(0)
get_files(stdout) == Tail(Split(stdout, NL))

\* build_test_paths: Path(rel_path)
build_test_path(rel_path) == Parts(rel_path)

\* the value of filter_test_files's local `components`
filter_components(filepath) ==
    LET resolved_path == PathStr(Resolve(filepath, cwd))
    IN  Parts(Replace(resolved_path, REPO_PATH_STRING))

InParts(c, parts) == \E k \in 1..Len(parts) : parts[k] = c

filter_test_files(filepath) ==
    LET comps == filter_components(filepath)
    IN  InParts(Tests, comps) \/ InParts(Test, comps)

check_for_config_folder == fs.config # "missing" /\ fs.config = "dir"

check_for_test_runner == fs.runner # "missing" /\ ~(fs.runner = "dir")

check_test_runner_executable == fs.executable

SHOULD_PRINT_STDOUT == FALSE

SHOULD_PRINT_STDERR == FALSE

\* variant of run_test_passed that also fails a test that wrote to stderr
run_test_passed_by_stderr(result) == result.returncode = 0 /\ Strip(result.stderr) = <<>>

\* run_test's return value: return_code != 0 gives False
run_test_passed(result) == ~(result.returncode # 0)

\* what run_test prints after the runner has returned
run_test_prints(test_path, result) ==
    LET output_string == Strip(result.stdout)
        error_string == Strip(result.stderr)
    IN  (IF output_string # <<>> /\ SHOULD_PRINT_STDOUT
         THEN << [kind |-> "[stdout]", text |-> output_string] >> ELSE <<>>)
        \o
        (IF error_string # <<>> /\ SHOULD_PRINT_STDERR
         THEN << [kind |-> "[stderr]", text |-> error_string] >> ELSE <<>>)
        \o
        (IF result.returncode # 0
         THEN << [kind |-> "[ERROR] test failed", text |-> PathStr(test_path)] >>
         ELSE <<>>)

----------------------------------------------------------------------------
(* The script, one action per step of its one thread *)

Init ==
    /\ pc = "load"
    /\ fs \in FsStates
    /\ \E root \in Roots, sub \in Subdirs, in_repo \in BOOLEAN :
          /\ cwd = root \o sub
          /\ toplevel = IF in_repo THEN root ELSE <<>>
    /\ REPO_PATH_STRING = <<>>
    /\ check_log = <<>>
    /\ calls = <<>>
    /\ listing = <<>>
    /\ files = <<>>
    /\ j = 0
    /\ verdicts = <<>>
    /\ components = <<>>
    /\ test_paths = <<>>
    /\ tests = <<>>
    /\ something_failed = FALSE
    /\ returncodes = <<>>
    /\ output = [stdout |-> <<>>, stderr |-> <<>>]
    /\ printed = <<>>
    /\ exit_code = "none"

\* an exception nothing catches: the interpreter prints the traceback and
\* the process ends with status 1
Unhandled ==
    /\ pc' = "crashed"
    /\ exit_code' = 1

\* lines 54-57: the module globals
LoadModule ==
    /\ pc = "load"
    /\ calls' = Append(calls, [cmd |-> "git rev-parse --show-toplevel", arg |-> <<>>])
    /\ \E launched \in BOOLEAN :
          LET proc == IF toplevel = <<>>
                      THEN Proc(launched, <<>>, <<"F">>, 128)
                      ELSE Proc(launched, toplevel \o <<NL>>, <<>>, 0)
              result == run_cli(proc)
          IN  IF result.raised
              THEN Unhandled /\ UNCHANGED REPO_PATH_STRING
              ELSE /\ REPO_PATH_STRING' = get_toplevel_repo(result)
                   /\ pc' = "check_config"
                   /\ exit_code' = exit_code
    /\ UNCHANGED <<cwd, toplevel, fs, check_log, listing, files, j, verdicts,
                   components, test_paths, tests, something_failed, returncodes,
                   output, printed>>

\* variant of validate_step that reports a failed check and goes on
validate_step_noexit(name, ok, next) ==
    /\ check_log' = Append(check_log, [check |-> name, ok |-> ok])
    /\ printed' = IF ok THEN printed
                  ELSE Append(printed, [kind |-> "[ERROR]", text |-> name])
    /\ pc' = next
    /\ exit_code' = exit_code

\* one `if not check(): print(...); exit(1)` of validate_project
validate_step(name, ok, next) ==
    /\ check_log' = Append(check_log, [check |-> name, ok |-> ok])
    /\ IF ok
       THEN /\ printed' = printed
            /\ pc' = next
            /\ exit_code' = exit_code
       ELSE /\ printed' = Append(printed, [kind |-> "[ERROR]", text |-> name])
            /\ pc' = "exited"
            /\ exit_code' = 1

CheckConfigFolder ==
    /\ pc = "check_config"
    /\ validate_step("check_for_config_folder", check_for_config_folder, "check_runner")
    /\ UNCHANGED <<cwd, toplevel, fs, REPO_PATH_STRING, calls, listing, files, j,
                   verdicts, components, test_paths, tests, something_failed,
                   returncodes, output>>

CheckTestRunner ==
    /\ pc = "check_runner"
    /\ validate_step("check_for_test_runner", check_for_test_runner, "check_executable")
    /\ UNCHANGED <<cwd, toplevel, fs, REPO_PATH_STRING, calls, listing, files, j,
                   verdicts, components, test_paths, tests, something_failed,
                   returncodes, output>>

CheckTestRunnerExecutable ==
    /\ pc = "check_executable"
    /\ validate_step("check_test_runner_executable", check_test_runner_executable,
                     "get_files")
    /\ UNCHANGED <<cwd, toplevel, fs, REPO_PATH_STRING, calls, listing, files, j,
                   verdicts, components, test_paths, tests, something_failed,
                   returncodes, output>>

\* line 155: get_files()
GetFiles ==
    /\ pc = "get_files"
    /\ calls' = Append(calls, [cmd |-> "git diff-tree --name-only -r HEAD", arg |-> <<>>])
    /\ \E launched \in BOOLEAN, lines \in Listings :
          /\ toplevel = <<>> => lines = <<>>
          /\ LET proc == Proc(launched, Join(lines, NL), <<>>,
                              IF toplevel = <<>> THEN 128 ELSE 0)
                 result == run_cli(proc)
             IN  IF result.raised
                 THEN Unhandled /\ UNCHANGED <<listing, files>>
                 ELSE /\ listing' = lines
                      /\ files' = get_files(result.stdout)
                      /\ pc' = "filter"
                      /\ exit_code' = exit_code
    /\ UNCHANGED <<cwd, toplevel, fs, REPO_PATH_STRING, check_log, j, verdicts,
                   components, test_paths, tests, something_failed, returncodes,
                   output, printed>>

\* lines 152-156: filter(filter_test_files, build_test_paths(files)), one
\* entry at a time
FilterStep ==
    /\ pc = "filter"
    /\ j < Len(files)
    /\ LET filepath == build_test_path(files[j + 1])
           keep == filter_test_files(filepath)
       IN  /\ components' = filter_components(filepath)
           /\ verdicts' = Append(verdicts, keep)
           /\ test_paths' = IF keep THEN Append(test_paths, filepath) ELSE test_paths
    /\ j' = j + 1
    /\ UNCHANGED <<pc, cwd, toplevel, fs, REPO_PATH_STRING, check_log, calls,
                   listing, files, tests, something_failed, returncodes, output,
                   printed, exit_code>>

\* variant of no_test_paths without the early return
never_empty(paths) == FALSE

\* line 158: `not test_paths`
no_test_paths(paths) == Len(paths) = 0

\* lines 158-168: return when nothing was found, else print what was found
FilterDone ==
    /\ pc = "filter"
    /\ j = Len(files)
    /\ IF no_test_paths(test_paths)
       THEN /\ pc' = "exited"
            /\ exit_code' = 0
            /\ printed' = printed
       ELSE /\ pc' = "exec"
            /\ exit_code' = exit_code
            /\ printed' = printed
                  \o << [kind |-> "Found:", text |-> <<>>] >>
                  \o [k \in 1..Len(test_paths) |->
                        [kind |-> "found", text |-> PathStr(test_paths[k])]]
                  \o << [kind |-> "Executing:", text |-> <<>>] >>
    /\ UNCHANGED <<cwd, toplevel, fs, REPO_PATH_STRING, check_log, calls, listing,
                   files, j, verdicts, components, test_paths, tests,
                   something_failed, returncodes, output>>

\* variant of loop_next that leaves the loop at the first failure
loop_break(passed, idx) ==
    IF passed /\ idx < Len(test_paths) THEN "exec" ELSE "report"

\* line 169: `for test_path in test_paths` goes on to the next candidate
\* whatever the body did
loop_next(passed, idx) == IF idx < Len(test_paths) THEN "exec" ELSE "report"

\* lines 169-174: one iteration of the loop, with the call of run_test
RunTest ==
    /\ pc = "exec"
    /\ Len(tests) < Len(test_paths)
    /\ LET idx == Len(tests) + 1
           test_path == test_paths[idx]
       IN  /\ calls' = Append(calls, [cmd |-> "test_runner",
                                      arg |-> PathStr(Resolve(test_path, cwd))])
           /\ \E launched \in BOOLEAN, rc \in RetCodes, out \in Streams, err \in Streams :
                 LET result == run_cli(Proc(launched, out, err, rc))
                     passed == run_test_passed(result)
                     probe == [kind |-> "probe", text |-> PathStr(test_path)]
                 IN  IF result.raised
                     THEN /\ Unhandled
                          /\ printed' = Append(printed, probe)
                          /\ UNCHANGED <<tests, something_failed, returncodes, output>>
                     ELSE /\ printed' = Append(printed, probe)
                                           \o run_test_prints(test_path, result)
                          /\ tests' = Append(tests, [path |-> test_path, passed |-> passed])
                          /\ something_failed' = (something_failed \/ ~passed)
                          /\ returncodes' = Append(returncodes, result.returncode)
                          /\ output' = [stdout |-> Strip(result.stdout),
                                        stderr |-> Strip(result.stderr)]
                          /\ pc' = loop_next(passed, idx)
                          /\ exit_code' = exit_code
    /\ UNCHANGED <<cwd, toplevel, fs, REPO_PATH_STRING, check_log, listing, files,
                   j, verdicts, components, test_paths>>

\* variant of exit_status that never calls exit(1)
exit_status_zero(failed) == 0

\* lines 186-188: exit(1) if something failed, else the script ends
exit_status(failed) == IF failed THEN 1 ELSE 0

\* lines 177-188: the report and the exit status
Report ==
    /\ pc = "report"
    /\ printed' = printed
          \o << [kind |-> "Report:", text |-> <<>>] >>
          \o [k \in 1..Len(tests) |->
                [kind |-> IF tests[k].passed THEN "pass" ELSE "fail",
                 text |-> PathStr(tests[k].path)]]
    /\ pc' = "exited"
    /\ exit_code' = exit_status(something_failed)
    /\ UNCHANGED <<cwd, toplevel, fs, REPO_PATH_STRING, check_log, calls, listing,
                   files, j, verdicts, components, test_paths, tests,
                   something_failed, returncodes, output>>

Next ==
    \/ LoadModule
    \/ CheckConfigFolder
    \/ CheckTestRunner
    \/ CheckTestRunnerExecutable
    \/ GetFiles
    \/ FilterStep
    \/ FilterDone
    \/ RunTest
    \/ Report

Spec == Init /\ [][Next]_vars

----------------------------------------------------------------------------
(* What the properties below read off a state *)

ValidationFailed == \E k \in 1..Len(check_log) : ~check_log[k].ok

ValidationPassed == Len(check_log) = 3 /\ ~ValidationFailed

CheckOrder ==
    <<"check_for_config_folder", "check_for_test_runner", "check_test_runner_executable">>

Requested(cmd) == \E k \in 1..Len(calls) : calls[k].cmd = cmd

\* the arguments of the runner invocations so far, in the order they were made
Invoked ==
    LET rc == SelectSeq(calls, LAMBDA c : c.cmd = "test_runner")
    IN  [k \in 1..Len(rc) |-> rc[k].arg]

\* the absolute paths of the candidates, in the candidates' order
Candidates == [k \in 1..Len(test_paths) |-> PathStr(Resolve(test_paths[k], cwd))]

Printed(kind) == \E k \in 1..Len(printed) : printed[k].kind = kind

ReportLines == SelectSeq(printed, LAMBDA l : l.kind \in {"pass", "fail"})

\* by path algebra: the components of the absolute form of a listed path
\* that lie below the work tree root
BelowRoot(rel_path) ==
    LET abs == Resolve(Parts(rel_path), cwd)
    IN  SubSeq(abs, Len(Parts(toplevel)) + 1, Len(abs))

\* s without old when s starts with old, else s
WithoutPrefix(s, old) ==
    IF MatchAt(s, old, 1) THEN SubSeq(s, Len(old) + 1, Len(s)) ELSE s

----------------------------------------------------------------------------
(* The claims *)

C2_ValidationShortCircuits ==
    /\ Len(check_log) <= 3
    /\ \A k \in 1..Len(check_log) : check_log[k].check = CheckOrder[k]
    /\ \A k \in 1..(Len(check_log) - 1) : check_log[k].ok
    /\ ValidationFailed => pc = "exited" /\ exit_code = 1
    /\ (Requested("git diff-tree --name-only -r HEAD") \/ Requested("test_runner"))
          => ValidationPassed

\* C2 witness: the config folder check passed, the test runner check failed,
\* and the process has ended without a listing or a runner invocation.
C2_Witness ==
    /\ Len(check_log) = 2
    /\ check_log[1].ok
    /\ ~check_log[2].ok
    /\ pc = "exited"
    /\ ~Requested("git diff-tree --name-only -r HEAD")

\* C3: every listed path the filter was applied to was kept if and only if
\* the components of its absolute form below the repository root include one
\* that is exactly "test" or "tests".
C3_FilterIsComponentMatch ==
    \A k \in 1..Len(verdicts) :
        verdicts[k] <=> (InParts(Test, BelowRoot(files[k])) \/ InParts(Tests, BelowRoot(files[k])))

\* C4: when git diff-tree printed N >= 1 lines, get_files returned the last
\* N-1 of them, in order, and nothing else.
C4_GetFilesDropsFirstLine ==
    Len(listing) >= 1 =>
        /\ Len(files) = Len(listing) - 1
        /\ \A k \in 1..Len(files) : files[k] = listing[k + 1]

\* C4 witness: a listing of the commit line and two different lines has been
\* read, and get_files returned the two.
C4_Witness ==
    /\ Len(listing) = 3
    /\ Len(files) = 2
    /\ files[1] # files[2]
    /\ files[1] = listing[2]

C6_LaunchFailureHandled == pc # "crashed"

\* C7: once the report is printed it has one result line per candidate, the
\* k-th naming the k-th candidate, and that line is a pass line if and only
\* if the k-th runner invocation returned 0, whatever the runner wrote.
C7_ReportByExitCode ==
    Printed("Report:") =>
        /\ Len(ReportLines) = Len(test_paths)
        /\ Len(returncodes) = Len(test_paths)
        /\ \A k \in 1..Len(ReportLines) :
              /\ ReportLines[k].text = PathStr(test_paths[k])
              /\ ReportLines[k].kind = "pass" <=> returncodes[k] = 0

\* C7 witness: a report of a failed candidate followed by a passed one whose
\* runner wrote to standard error.
C7_Witness ==
    /\ Printed("Report:")
    /\ Len(returncodes) = 2
    /\ returncodes[1] # 0
    /\ returncodes[2] = 0
    /\ output.stderr # <<>>
    /\ ReportLines[2].kind = "pass"

\* C8: a section header is printed, and the runner invoked, only when there
\* is a candidate; and a run that passed validation and filtered the listing
\* down to no candidate has exited with status 0.
C8_NoCandidatesExitsQuietly ==
    /\ (Printed("Found:") \/ Printed("Executing:") \/ Printed("Report:")
          \/ Requested("test_runner")) => Len(test_paths) > 0
    /\ (pc \in {"exec", "report", "exited"} /\ ValidationPassed /\ Len(test_paths) = 0)
          => pc = "exited" /\ exit_code = 0

\* C8 witness: validation passed, the listing had entries, none was kept, and
\* the process exited with 0.
C8_Witness ==
    /\ pc = "exited"
    /\ ValidationPassed
    /\ Len(files) >= 1
    /\ j = Len(files)
    /\ Len(test_paths) = 0
    /\ exit_code = 0

\* C9: a blank entry of the listing is never kept by the filter, wherever the
\* script is started and whatever the repository root is.
C9_BlankNeverCandidate ==
    \A k \in 1..Len(verdicts) : files[k] = <<>> => ~verdicts[k]

\* C10: the components the filter tests are the parts of the resolved path
\* with the repository root removed as a leading prefix only.
C10_OnlyLeadingPrefixRemoved ==
    j >= 1 =>
        components =
            Parts(WithoutPrefix(PathStr(Resolve(Parts(files[j]), cwd)), REPO_PATH_STRING))

====
